---- MODULE Spec2Model ----
(***************************************************************************)
(* Stock synchronisation service (IPOS -> WooCommerce).                    *)
(*                                                                         *)
(* StockSyncService (src/src/syncService.js) drives one cycle at a time:   *)
(* WooCommerceService.getAllProducts (src/unnamed/part_003) pages through  *)
(* the remote catalog, LocalApiService (src/src/localApi.js) resolves the  *)
(* local quantity of every sku, processBatch diffs, and batchUpdateStock   *)
(* writes the differing quantities back.  Every await of the code is a     *)
(* point where another callback of the single-threaded event loop may run, *)
(* so every await ends one action of the model.                            *)
(***************************************************************************)
EXTENDS Integers, Sequences, FiniteSets, TLC

\* ------------------------------------------------------------------ bounds
\* Longest remote catalog drawn by Init.
MaxProducts == 3
\* Cycles (performSync activations that pass the guard) per behaviour.
MaxCycles == 2
\* Requests arriving while a cycle is running, per behaviour.
MaxRejected == 1
\* perPage of getAllProducts (100 in the code), scaled to the catalog sizes.
PerPage == 2
\* config.sync.batchSize (50 in the README's configuration), scaled likewise:
\* the size the service is configured with unless the batch size varies.
BatchSize == 2
\* Largest config.sync.batchSize drawn where the batch size varies.
MaxBatchSize == 3
\* Longest array the local backend answers with.
MaxItems == 3
\* config.sync.maxRetries (3 in the README's configuration); 4 lets three
\* waits of getLocalStock be told apart.
MaxRetries == 4
\* config.sync.retryDelayMs, in milliseconds.
RetryDelayMs == 500
\* The pause of performSync between two batches, in milliseconds.
BatchDelayMs == 1000
\* The pause of batchUpdateStock between two writes, in milliseconds.
WriteDelayMs == 700

\* null: an optional value is <<>> (null) or <<x>>.
NULL == <<>>

Some(x) == <<x>>

TheValue(o) == o[1]

\* ------------------------------------------------------- JavaScript values
\* A JSON value of a local-backend record: a number in thousandths (v),
\* NaN, a string as its sequence of characters, null, or anything else
\* (boolean, object, array).
Num(v) == [t |-> "number", v |-> v]
NaN == [t |-> "nan"]
Str(s) == [t |-> "string", s |-> s]
JsNull == [t |-> "null"]
JsOther == [t |-> "other"]

\* Infinity, written as a whole number above every finite quantity of the
\* model; as a Num it stands in thousandths like every number.
Infinity == 1000000

InfinityLiteral == <<"I", "n", "f", "i", "n", "i", "t", "y">>

DigitOf ==
    ("0" :> 0) @@ ("1" :> 1) @@ ("2" :> 2) @@ ("3" :> 3) @@ ("4" :> 4) @@
    ("5" :> 5) @@ ("6" :> 6) @@ ("7" :> 7) @@ ("8" :> 8) @@ ("9" :> 9)

IsDigit(ch) == ch \in DOMAIN DigitOf

IsSpace(ch) == ch \in {" ", "\t", "\n"}

\* The first place from i on that holds no white space.
RECURSIVE SkipSpacesFrom(_, _)
SkipSpacesFrom(s, i) ==
    IF i <= Len(s) /\ IsSpace(s[i]) THEN SkipSpacesFrom(s, i + 1) ELSE i

\* The last place down from j that holds no white space.
RECURSIVE SkipSpacesBack(_, _)
SkipSpacesBack(s, j) ==
    IF j >= 1 /\ IsSpace(s[j]) THEN SkipSpacesBack(s, j - 1) ELSE j

\* String.prototype.trim
Trim(s) == SubSeq(s, SkipSpacesFrom(s, 1), SkipSpacesBack(s, Len(s)))

\* The first place from i on that holds no digit.
RECURSIVE DigitsEnd(_, _)
DigitsEnd(s, i) ==
    IF i <= Len(s) /\ IsDigit(s[i]) THEN DigitsEnd(s, i + 1) ELSE i

\* The number written by the digits s[i], ..., s[j - 1], after acc.
RECURSIVE DigitsToInt(_, _, _, _)
DigitsToInt(s, i, j, acc) ==
    IF i >= j THEN acc ELSE DigitsToInt(s, i + 1, j, 10 * acc + DigitOf[s[i]])

\* Thousandths written by the fraction digits s[i], ..., s[j - 1] (digits
\* past the third are dropped; the bounded inputs carry at most three).
FractionMilli(s, i, j) ==
    (IF i < j THEN 100 * DigitOf[s[i]] ELSE 0)
    + (IF i + 1 < j THEN 10 * DigitOf[s[i + 1]] ELSE 0)
    + (IF i + 2 < j THEN DigitOf[s[i + 2]] ELSE 0)

\* parseFloat once the sign is read: the literal Infinity, or digits from
\* place b on and an optional fraction; whatever follows is ignored; no
\* digit at all gives NaN.
ParseUnsigned(s, b, neg) ==
    LET e == DigitsEnd(s, b)
    IN  IF b + Len(InfinityLiteral) - 1 <= Len(s)
           /\ SubSeq(s, b, b + Len(InfinityLiteral) - 1) = InfinityLiteral
        THEN Num((IF neg THEN -1 ELSE 1) * 1000 * Infinity)
        ELSE IF e <= Len(s) /\ s[e] = "."
        THEN LET f == DigitsEnd(s, e + 1)
             IN  IF e = b /\ f = e + 1 THEN NaN
                 ELSE Num((IF neg THEN -1 ELSE 1)
                          * (1000 * DigitsToInt(s, b, e, 0) + FractionMilli(s, e + 1, f)))
        ELSE IF e = b THEN NaN
        ELSE Num((IF neg THEN -1 ELSE 1) * 1000 * DigitsToInt(s, b, e, 0))

\* parseFloat on decimal literals: leading white space is skipped, then an
\* optional sign.
parseFloat(s) ==
    LET a == SkipSpacesFrom(s, 1)
    IN  IF a <= Len(s) /\ s[a] \in {"-", "+"}
        THEN ParseUnsigned(s, a + 1, s[a] = "-")
        ELSE ParseUnsigned(s, a, FALSE)

\* Rounding to the nearest integer instead.
MathFloor_Round(v) == (v + 500) \div 1000

\* Math.floor of a number given in thousandths.
MathFloor(v) == v \div 1000

\* ------------------------------------------------------------- localApi.js
possibleFields ==
    << "stock", "stok", "stock_quantity", "stockQuantity", "quantity", "qty",
       "available_stock", "availableStock", "inventory", "stock_count",
       "stockCount" >>

\* A probing loop that gives up at the first field it rejects.
RECURSIVE ProbeFrom_StopsAtRejected(_, _)
ProbeFrom_StopsAtRejected(data, i) ==
    IF i > Len(possibleFields) THEN NULL
    ELSE LET field == possibleFields[i]
             present == field \in DOMAIN data /\ data[field].t # "null"
             quantity == IF ~present THEN NaN
                         ELSE IF data[field].t \in {"number", "nan"} THEN data[field]
                         ELSE IF data[field].t = "string" THEN parseFloat(data[field].s)
                         ELSE NaN
         IN  IF present /\ quantity.t = "number" /\ quantity.v >= 0
             THEN Some(MathFloor(quantity.v))
             ELSE IF present THEN NULL
             ELSE ProbeFrom_StopsAtRejected(data, i + 1)

\* One pass of the probing loop from field number i on: the floored
\* quantity of the first usable field, null when none is.
RECURSIVE ProbeFrom(_, _)
ProbeFrom(data, i) ==
    IF i > Len(possibleFields) THEN NULL
    ELSE LET field == possibleFields[i]
             present == field \in DOMAIN data /\ data[field].t # "null"
             quantity == IF ~present THEN NaN
                         ELSE IF data[field].t \in {"number", "nan"} THEN data[field]
                         ELSE IF data[field].t = "string" THEN parseFloat(data[field].s)
                         ELSE NaN
         IN  IF present /\ quantity.t = "number" /\ quantity.v >= 0
             THEN Some(MathFloor(quantity.v))
             ELSE ProbeFrom(data, i + 1)

extractStockQuantity(data) == ProbeFrom(data, 1)

\* A raw response body of the local backend.
RespArray(items) == [kind |-> "array", items |-> items]
RespObject(obj) == [kind |-> "object", obj |-> obj]
RespFalsy == [kind |-> "falsy"]
RespScalar == [kind |-> "scalar"]

\* An array element that is an object is [elem |-> "object", obj |-> ...];
\* any other element (null, a number, a string) is [elem |-> "other"].
ElemObj(obj) == [elem |-> "object", obj |-> obj]
ElemOther == [elem |-> "other"]

\* A loop in which every row makes the data valid, with or without a
\* quantity.
RECURSIVE SumArray_EveryRowIsValid(_, _, _)
SumArray_EveryRowIsValid(items, totalStock, hasValidData) ==
    IF items = <<>> THEN <<totalStock, hasValidData>>
    ELSE LET item == Head(items)
             stockValue == IF item.elem = "object"
                           THEN extractStockQuantity(item.obj) ELSE NULL
         IN  IF stockValue # NULL
             THEN SumArray_EveryRowIsValid(Tail(items),
                                           totalStock + TheValue(stockValue), TRUE)
             ELSE SumArray_EveryRowIsValid(Tail(items), totalStock,
                                           item.elem = "object" \/ hasValidData)

\* The loop over an array response: <<totalStock, hasValidData>>.
RECURSIVE SumArray(_, _, _)
SumArray(items, totalStock, hasValidData) ==
    IF items = <<>> THEN <<totalStock, hasValidData>>
    ELSE LET item == Head(items)
             stockValue == IF item.elem = "object"
                           THEN extractStockQuantity(item.obj) ELSE NULL
         IN  IF stockValue # NULL
             THEN SumArray(Tail(items), totalStock + TheValue(stockValue), TRUE)
             ELSE SumArray(Tail(items), totalStock, hasValidData)

\* parseStockData: null, or the record {stockQuantity, available}.
parseStockData(data) ==
    IF data.kind = "array"
    THEN LET r == SumArray(data.items, 0, FALSE)
         IN  IF r[2]
             THEN Some([stockQuantity |-> r[1], available |-> r[2] /\ r[1] >= 0])
             ELSE NULL
    ELSE IF data.kind = "object"
    THEN LET stockValue == extractStockQuantity(data.obj)
         IN  IF stockValue # NULL
             THEN Some([stockQuantity |-> TheValue(stockValue),
                        available |-> TheValue(stockValue) >= 0])
             ELSE NULL
    ELSE NULL

\* What the local backend does with one query.
QueryOutcomes == {"ok", "non200", "error"}

\* getStockByBarcode: every failure of the request is caught and logged and
\* null is returned, so the call never throws.
getStockByBarcode(outcome, data) ==
    IF outcome = "ok"
    THEN [thrown |-> FALSE,
          value |-> IF data.kind # "falsy" THEN parseStockData(data) ELSE NULL]
    ELSE [thrown |-> FALSE, value |-> NULL]

\* ------------------------------------------------------------ environment
SkuA1 == <<"A", "1">>
SkuB2 == <<"B", "2">>
SKUs == {SkuA1, SkuB2}

\* Remote products as the catalog endpoint serves them (published, stock
\* managed): a matchable product in stock, one whose stock_quantity is
\* null, one whose sku is white space only, one whose sku is the empty
\* string, one that has no sku, and one out of stock.
ProductKinds ==
    << [sku |-> Str(SkuA1), stock_quantity |-> Some(1)],
       [sku |-> Str(SkuB2), stock_quantity |-> NULL],
       [sku |-> Str(<<" ", "\t">>), stock_quantity |-> Some(1)],
       [sku |-> Str(<<>>), stock_quantity |-> Some(1)],
       [sku |-> JsNull, stock_quantity |-> Some(1)],
       [sku |-> Str(SkuA1), stock_quantity |-> Some(0)] >>

\* The catalog of n products that starts with kind number `first` and goes
\* round the kinds; a product's id is its place in the catalog.
Catalog(n, first) ==
    [ p \in 1..n |->
        LET kind == ProductKinds[((first + p - 2) % Len(ProductKinds)) + 1]
        IN  [id |-> p, sku |-> kind.sku, stock_quantity |-> kind.stock_quantity] ]

Catalogs ==
    { Catalog(n, first) : n \in 0..MaxProducts, first \in 1..Len(ProductKinds) }

\* Bodies the local backend answers a barcode query with: no row, an
\* integer stock of 0, the decimal string "1.000", and a record that
\* carries no quantity field.
LocalResponses ==
    << RespArray(<<>>),
       RespObject([stock |-> Num(0)]),
       RespObject([stok |-> Str(<<"1", ".", "0", "0", "0">>)]),
       RespObject([name |-> Str(<<"x">>)]) >>

\* The local backend's data: each sku has one of the bodies, the two skus
\* different ones.
LocalBackends ==
    { [sku \in SKUs |->
         LocalResponses[((j + (IF sku = SkuA1 THEN 0 ELSE 1)) % Len(LocalResponses)) + 1]]
      : j \in 1..Len(LocalResponses) }

\* Values a field of a local-backend record may hold: 2, 5.7 and -1 as
\* numbers, the strings "5.7", "0.000", "-1", "abc" and "Infinity", a
\* boolean, null.
FieldValues ==
    { Num(2000), Num(5700), Num(-1000),
      Str(<<"5", ".", "7">>), Str(<<"0", ".", "0", "0", "0">>),
      Str(<<"-", "1">>), Str(<<"a", "b", "c">>), Str(InfinityLiteral),
      JsOther, JsNull }

\* The probed fields the records of the model carry, in any combination.
ProbedFields == {"stock", "stok", "qty"}

RecordBodies == UNION { [F -> FieldValues] : F \in SUBSET ProbedFields }

\* Elements of an array body: null, and rows with stock 2, stok "1.000",
\* no quantity field, stock -1.
ArrayElems ==
    { ElemOther,
      ElemObj([stock |-> Num(2000)]),
      ElemObj([stok |-> Str(<<"1", ".", "0", "0", "0">>)]),
      ElemObj([name |-> Str(<<"x">>)]),
      ElemObj([stock |-> Num(-1000)]) }

ArrayBodies == UNION { [1..n -> ArrayElems] : n \in 0..MaxItems }

\* Every body of the wider set: arrays, records, an empty body, a scalar.
ResponseBodies ==
    {RespArray(items) : items \in ArrayBodies}
    \cup {RespObject(obj) : obj \in RecordBodies}
    \cup {RespFalsy, RespScalar}

\* A local backend that answers every sku with the same body.
ResponseBackends == { [sku \in SKUs |-> data] : data \in ResponseBodies }

\* getStockByBarcode over the outcomes and bodies of the model, computed
\* once.
QueryResult ==
    [ outcome \in QueryOutcomes,
      data \in {LocalResponses[n] : n \in 1..Len(LocalResponses)}
                 \cup ResponseBodies
        |-> getStockByBarcode(outcome, data) ]

\* ------------------------------------------------------------------- state
VARIABLES
    isRunning,      \* StockSyncService.isRunning
    lastSyncTime,   \* 0 (null), else the cycle that set it last
    syncStats,      \* totalSyncs, totalProducts, totalUpdates, totalErrors
    cronJob,        \* "null" or "active"
    startPc,        \* where start() stands
    wooCommerceOk,  \* testConnections' first result, while it awaits the second
    localApiOk,     \* testConnections' second result
    proc,           \* the process: "running", "shuttingDown", "exited"
    exitCode,       \* null, or the code the process exited with
    cycles,         \* the activations of performSync that passed the guard
    remote,         \* the remote catalog
    localData,      \* the local backend's answer for every sku
    batchSize,      \* config.sync.batchSize
    accepted,       \* requests that arrived while the service was idle
    rejected        \* requests that arrived while a cycle was running

vars ==
    << isRunning, lastSyncTime, syncStats, cronJob, startPc, wooCommerceOk,
       localApiOk, proc, exitCode,
       cycles, remote, localData, batchSize, accepted, rejected >>

CycleIds == 1..MaxCycles

\* The frame of one performSync activation: its locals, those of
\* getAllProducts, processBatch, getLocalStock and batchUpdateStock while
\* they run, the argument of the delay() it awaits (delayMs, 0 when it
\* awaits none), and what it has done so far: the raw size of every page
\* received (pageSizes), the queries issued and those that failed for the
\* item being looked up (itemQueries, failures) and for every item looked
\* up before (lookups), fetchError, found, writes, exit; the statistics
\* and the state of the process when it began (statsAtStart, startedIn);
\* the value it resolved with (value, null for undefined); the ids of the
\* products looked up in every call of processBatch (batches) and, for
\* every pause between batches, the number of calls made before it
\* (pauses).
NoCycle ==
    [ pc |-> "none", caller |-> "none",
      page |-> 1, allProducts |-> <<>>, products |-> <<>>,
      i |-> 0, k |-> 0, retries |-> 0, queries |-> 0,
      batchUpdates |-> <<>>, updates |-> <<>>,
      w |-> 0, successful |-> 0, failed |-> 0, delayMs |-> 0,
      pageSizes |-> <<>>, itemQueries |-> 0, failures |-> 0, lookups |-> <<>>,
      fetchError |-> FALSE, found |-> <<>>, writes |-> <<>>,
      statsAtStart |-> <<>>, startedIn |-> "none", value |-> NULL,
      batches |-> <<>>, pauses |-> <<>>,
      exit |-> "pending", result |-> "pending" ]

InitService ==
    /\ isRunning = FALSE
    /\ lastSyncTime = 0
    /\ syncStats = [totalSyncs |-> 0, totalProducts |-> 0,
                    totalUpdates |-> 0, totalErrors |-> 0]
    /\ cronJob = "null"
    /\ startPc = "new"
    /\ wooCommerceOk = FALSE
    /\ localApiOk = FALSE
    /\ proc = "running"
    /\ exitCode = NULL
    /\ cycles = [c \in CycleIds |-> NoCycle]
    /\ accepted = 0
    /\ rejected = 0

Init ==
    /\ InitService
    /\ remote \in Catalogs
    /\ localData \in LocalBackends
    /\ batchSize = BatchSize

Min(a, b) == IF a < b THEN a ELSE b

Started == {c \in CycleIds : cycles[c].pc # "none"}

Active == {c \in CycleIds : cycles[c].pc \notin {"none", "done"}}

\* ------------------------------------------------------- WooCommerceService
\* The page the catalog endpoint serves for page number `page`.
PageOf(catalog, page) ==
    SubSeq(catalog, (page - 1) * PerPage + 1, Min(page * PerPage, Len(catalog)))

\* A filter that does not trim: product.sku !== ''
HasSku_NoTrim(product) ==
    /\ product.sku.t = "string"
    /\ product.sku.s # <<>>

\* product.sku && product.sku.trim() !== ''
HasSku(product) ==
    /\ product.sku.t = "string"
    /\ product.sku.s # <<>>
    /\ Trim(product.sku.s) # <<>>

\* x || 0 on a stock_quantity that is null or a number.
OrZero(q) == IF q = NULL \/ TheValue(q) = 0 THEN 0 ELSE TheValue(q)

\* The final map of getAllProducts.
MapProducts(all) ==
    [ n \in 1..Len(all) |->
        [id |-> all[n].id, sku |-> all[n].sku,
         stock_quantity |-> OrZero(all[n].stock_quantity)] ]

\* A catch block that ends the paging and returns the pages read so far.
getAllProductsCatch_Partial(allProducts) ==
    [thrown |-> FALSE, value |-> allProducts]

\* getAllProducts' catch block: the error of a page request is logged and
\* thrown again; nothing is returned.
getAllProductsCatch(allProducts) == [thrown |-> TRUE, value |-> <<>>]

\* What the remote does with one PUT.
PutOutcomes == {"ok", "invalid", "error"}

\* An updateProductStock that does not look at the response.
updateProductStock_AlwaysTrue(outcome) == [thrown |-> FALSE, value |-> TRUE]

\* updateProductStock: true for a response carrying an id, false for any
\* other response and for a request that fails (caught, logged).
updateProductStock(outcome) == [thrown |-> FALSE, value |-> outcome = "ok"]

\* --------------------------------------------------------- StockSyncService
\* config.sync.enabled
SyncEnabled == TRUE

\* A performSync without its guard.
AlreadyRunning_NoGuard == FALSE

\* performSync's guard.
AlreadyRunning == isRunning

\* isRunning reset at the end of the try block instead of in finally.
IsRunningAtExit_EndOfTry(path) == path # "completed"

\* isRunning as performSync leaves it: the finally block runs on the early
\* return, at the normal end and after the catch block alike.
IsRunningAtExit(path) == FALSE

\* A catch block that throws the error again towards the caller.
PerformSyncResult_Rethrows(path) ==
    IF path = "caught" THEN "threw" ELSE "returned"

\* How performSync ends towards its caller: the catch block logs and
\* counts the error and does not throw it again.
PerformSyncResult(path) == "returned"

\* The value performSync resolves with: its return statements carry no
\* value and its last statement is none, so undefined on every path.
PerformSyncValue(cy, path) == NULL

\* A processBatch that pushes every quantity it found.
NeedsUpdate_Always(localStock, currentStock) == localStock # NULL

\* A processBatch that tests the quantity for truth: if (localStock).
NeedsUpdate_Truthy(localStock, currentStock) ==
    /\ localStock # NULL
    /\ TheValue(localStock) # 0
    /\ TheValue(localStock) # currentStock

\* processBatch: localStock !== null, then localStock !== currentStock.
NeedsUpdate(localStock, currentStock) ==
    /\ localStock # NULL
    /\ TheValue(localStock) # currentStock

\* A getLocalStock that answers 0 where it has no quantity.
getLocalStockAttempt_ZeroForMissing(retries, r) ==
    [ done |-> TRUE, retries |-> retries,
      value |-> IF r.value # NULL /\ TheValue(r.value).available
                THEN Some(TheValue(r.value).stockQuantity)
                ELSE Some(0) ]

\* A getLocalStock that takes a null answer for a failure and tries again.
getLocalStockAttempt_RetryOnNull(retries, r) ==
    IF r.value # NULL
    THEN [ done |-> TRUE, retries |-> retries,
           value |-> IF TheValue(r.value).available
                     THEN Some(TheValue(r.value).stockQuantity)
                     ELSE NULL ]
    ELSE IF retries + 1 < MaxRetries
    THEN [done |-> FALSE, retries |-> retries + 1, value |-> NULL]
    ELSE [done |-> TRUE, retries |-> retries + 1, value |-> NULL]

\* One turn of getLocalStock's loop, given what getStockByBarcode did.
getLocalStockAttempt(retries, r) ==
    IF ~r.thrown
    THEN [ done |-> TRUE, retries |-> retries,
           value |-> IF r.value # NULL /\ TheValue(r.value).available
                     THEN Some(TheValue(r.value).stockQuantity)
                     ELSE NULL ]
    ELSE IF retries + 1 < MaxRetries
    THEN [done |-> FALSE, retries |-> retries + 1, value |-> NULL]
    ELSE [done |-> TRUE, retries |-> retries + 1, value |-> NULL]

\* start() after `await this.performSync()`.
StartContinues(result) ==
    IF result = "threw"
    THEN /\ startPc' = "failed"
         /\ UNCHANGED cronJob
    ELSE /\ startPc' = "started"
         /\ cronJob' = IF SyncEnabled THEN "active" ELSE cronJob

\* An exit code that tells a cycle with an error from one without.
ManualSyncExitCode_FailsOnErrors(cy, result) ==
    IF result = "threw" \/ cy.exit = "caught" \/ cy.failed > 0 THEN 1 ELSE 0

\* The exit code of the --manual-sync closure of app.js once performSync
\* has ended: process.exit(0) after the awaits of its try block,
\* process.exit(1) in its catch block.
ManualSyncExitCode(cy, result) == IF result = "threw" THEN 1 ELSE 0

\* The --manual-sync closure of app.js after `await
\* syncService.performSync()`: the process exits.
ManualSyncContinues(cy, result) ==
    /\ startPc' = "done"
    /\ proc' = "exited"
    /\ exitCode' = Some(ManualSyncExitCode(cy, result))

\* What the caller of performSync does once it has ended with `result`:
\* start(), the --manual-sync closure of app.js ("app"), or a caller that
\* does nothing with it (the cron callback, manualSync()).
AfterPerformSync(caller, cy, result) ==
    IF caller = "start"
    THEN /\ StartContinues(result)
         /\ UNCHANGED <<proc, exitCode>>
    ELSE IF caller = "app"
    THEN /\ ManualSyncContinues(cy, result)
         /\ UNCHANGED cronJob
    ELSE UNCHANGED <<startPc, cronJob, proc, exitCode>>

\* Statistics that count the updates emitted for updates applied.
StatsAtExit_CountsEmitted(cy, path) ==
    IF path = "completed"
    THEN [ totalSyncs |-> syncStats.totalSyncs + 1,
           totalProducts |-> syncStats.totalProducts + Len(cy.products),
           totalUpdates |-> syncStats.totalUpdates + Len(cy.updates),
           totalErrors |-> syncStats.totalErrors + cy.failed ]
    ELSE IF path = "caught"
    THEN [syncStats EXCEPT !.totalErrors = @ + 1]
    ELSE syncStats

\* Statistics that count the early return on an empty catalog as an error.
StatsAtExit_EmptyIsError(cy, path) ==
    IF path = "completed"
    THEN [ totalSyncs |-> syncStats.totalSyncs + 1,
           totalProducts |-> syncStats.totalProducts + Len(cy.products),
           totalUpdates |-> syncStats.totalUpdates + cy.successful,
           totalErrors |-> syncStats.totalErrors + cy.failed ]
    ELSE [syncStats EXCEPT !.totalErrors = @ + 1]

\* Statistics that count a cycle whose catalog fetch failed as a cycle.
StatsAtExit_FailureIsACycle(cy, path) ==
    IF path = "completed"
    THEN [ totalSyncs |-> syncStats.totalSyncs + 1,
           totalProducts |-> syncStats.totalProducts + Len(cy.products),
           totalUpdates |-> syncStats.totalUpdates + cy.successful,
           totalErrors |-> syncStats.totalErrors + cy.failed ]
    ELSE IF path = "caught"
    THEN [syncStats EXCEPT !.totalSyncs = @ + 1, !.totalErrors = @ + 1]
    ELSE syncStats

\* The statistics as performSync leaves them on `path`: the update at the
\* end of the try block, the catch block's count, nothing on the early
\* return.
StatsAtExit(cy, path) ==
    IF path = "completed"
    THEN [ totalSyncs |-> syncStats.totalSyncs + 1,
           totalProducts |-> syncStats.totalProducts + Len(cy.products),
           totalUpdates |-> syncStats.totalUpdates + cy.successful,
           totalErrors |-> syncStats.totalErrors + cy.failed ]
    ELSE IF path = "caught"
    THEN [syncStats EXCEPT !.totalErrors = @ + 1]
    ELSE syncStats

\* getStats(): the four counters, isRunning, lastSyncTime and whether a
\* schedule is set.
getStats ==
    [ totalSyncs |-> syncStats.totalSyncs,
      totalProducts |-> syncStats.totalProducts,
      totalUpdates |-> syncStats.totalUpdates,
      totalErrors |-> syncStats.totalErrors,
      isRunning |-> isRunning,
      lastSyncTime |-> lastSyncTime,
      nextSyncTime |-> IF cronJob # "null" THEN "Every" ELSE "Not scheduled" ]

\* Statistics that count the writes as they are answered.
StatsAtAwait_CountsWrites(cy) ==
    [syncStats EXCEPT !.totalUpdates = cy.statsAtStart.totalUpdates + cy.successful]

\* The statistics when performSync stands at an await: no statement before
\* the one that follows the last await of the try block assigns to them.
StatsAtAwait(cy) == syncStats

\* One step of cycle c takes its frame to nxt.  While nxt.exit is pending
\* the cycle stands at its next await.  Otherwise performSync has reached
\* its end on the path nxt.exit: the statistics, the finally block, then
\* the caller's continuation (a microtask: nothing runs in between).
Commit(c, nxt) ==
    IF nxt.exit = "pending"
    THEN /\ cycles' = [cycles EXCEPT ![c] = nxt]
         /\ syncStats' = StatsAtAwait(nxt)
         /\ UNCHANGED <<isRunning, lastSyncTime, startPc, cronJob, proc,
                        exitCode>>
    ELSE /\ cycles' = [cycles EXCEPT ![c] =
                         [nxt EXCEPT !.pc = "done",
                                     !.result = PerformSyncResult(nxt.exit),
                                     !.value = PerformSyncValue(nxt, nxt.exit)]]
         /\ syncStats' = StatsAtExit(nxt, nxt.exit)
         /\ lastSyncTime' = IF nxt.exit = "completed" THEN c ELSE lastSyncTime
         /\ isRunning' = IsRunningAtExit(nxt.exit)
         /\ AfterPerformSync(nxt.caller, nxt, PerformSyncResult(nxt.exit))

\* performSync once getAllProducts has returned `all`: the early return on
\* an empty list, else the first query of the first batch.
AfterFetch(cy, all) ==
    IF Len(all) = 0
    THEN [cy EXCEPT !.allProducts = all, !.products = <<>>, !.exit = "empty"]
    ELSE [cy EXCEPT !.allProducts = all, !.products = MapProducts(all),
                    !.pc = "lookup", !.i = 0, !.k = 0, !.retries = 0,
                    !.queries = 1, !.itemQueries = 1, !.batches = << <<>> >>]

\* A getAllProducts that takes the number of products left by the sku
\* filter for the size of the page.
AfterPage_FilteredSize(cy, data) ==
    LET got == [cy EXCEPT !.pageSizes = Append(@, Len(data))]
    IN  IF Len(data) = 0
        THEN AfterFetch(got, cy.allProducts)
        ELSE IF Len(SelectSeq(data, HasSku)) < PerPage
        THEN AfterFetch(got, cy.allProducts \o SelectSeq(data, HasSku))
        ELSE [got EXCEPT !.allProducts = @ \o SelectSeq(data, HasSku),
                         !.page = @ + 1]

\* A getAllProducts that leaves the loop on a short page before it has
\* added the page's products.
AfterPage_DropsShortPage(cy, data) ==
    LET got == [cy EXCEPT !.pageSizes = Append(@, Len(data))]
    IN  IF Len(data) < PerPage
        THEN AfterFetch(got, cy.allProducts)
        ELSE [got EXCEPT !.allProducts = @ \o SelectSeq(data, HasSku),
                         !.page = @ + 1]

\* getAllProducts once a page request has returned `data`.
AfterPage(cy, data) ==
    LET got == [cy EXCEPT !.pageSizes = Append(@, Len(data))]
    IN  IF Len(data) = 0
        THEN AfterFetch(got, cy.allProducts)
        ELSE IF Len(data) < PerPage
        THEN AfterFetch(got, cy.allProducts \o SelectSeq(data, HasSku))
        ELSE [got EXCEPT !.allProducts = @ \o SelectSeq(data, HasSku),
                         !.page = @ + 1]

\* getAllProducts once a page request has failed, and performSync's catch
\* block when the error reaches it.
AfterPageError(cy, g) ==
    IF g.thrown
    THEN [cy EXCEPT !.fetchError = TRUE, !.exit = "caught"]
    ELSE AfterFetch([cy EXCEPT !.fetchError = TRUE], g.value)

\* A page request of getAllProducts returns or fails.
FetchPage(c) ==
    /\ cycles[c].pc = "fetch"
    /\ \E ok \in BOOLEAN :
         \E nxt \in { IF ok
                      THEN AfterPage(cycles[c], PageOf(remote, cycles[c].page))
                      ELSE AfterPageError(cycles[c],
                                          getAllProductsCatch(cycles[c].allProducts)) } :
             Commit(c, nxt)
    /\ UNCHANGED <<wooCommerceOk, localApiOk, remote, localData, batchSize,
                   accepted, rejected>>

\* performSync once the loop over the batches has ended: the first PUT of
\* batchUpdateStock, or the end of the cycle when there is no update.
AfterBatches(cy) ==
    IF Len(cy.updates) > 0
    THEN [cy EXCEPT !.pc = "write", !.w = 0]
    ELSE [cy EXCEPT !.exit = "completed"]

\* processBatch's entry for the product it has looked up.
UpdateFor(product, localStock) ==
    [ productId |-> product.id, sku |-> product.sku,
      stockQuantity |-> TheValue(localStock),
      currentStock |-> product.stock_quantity ]

\* A processBatch through which a lookup that found nothing ends the cycle
\* in performSync's catch block.
AfterLookup_AbortOnNull(cy, localStock, pushed) ==
    IF localStock = NULL
    THEN [cy EXCEPT !.found = Append(@, localStock),
                    !.lookups = Append(@, [queries |-> cy.itemQueries,
                                           failures |-> cy.failures]),
                    !.exit = "caught"]
    ELSE IF cy.k + 1 < Min(cy.i + batchSize, Len(cy.products))
    THEN [cy EXCEPT !.found = Append(@, localStock),
                    !.lookups = Append(@, [queries |-> cy.itemQueries,
                                           failures |-> cy.failures]),
                    !.failures = 0, !.batchUpdates = pushed, !.k = @ + 1,
                    !.queries = @ + 1, !.itemQueries = 1]
    ELSE [cy EXCEPT !.found = Append(@, localStock),
                    !.lookups = Append(@, [queries |-> cy.itemQueries,
                                           failures |-> cy.failures]),
                    !.updates = @ \o pushed, !.exit = "completed"]

\* A performSync that puts a batch's updates in front of the earlier ones.
AfterLookup_Prepend(cy, localStock, pushed) ==
    LET resolved ==
            [cy EXCEPT !.found = Append(@, localStock), !.retries = 0,
                       !.lookups = Append(@, [queries |-> cy.itemQueries,
                                              failures |-> cy.failures]),
                       !.itemQueries = 0, !.failures = 0,
                       !.batches[Len(cy.batches)] = Append(@, cy.products[cy.k + 1].id)]
    IN  IF cy.k + 1 < Min(cy.i + batchSize, Len(cy.products))
        THEN [resolved EXCEPT !.batchUpdates = pushed, !.k = @ + 1,
                              !.queries = @ + 1, !.itemQueries = 1]
        ELSE IF cy.i + batchSize < Len(cy.products)
        THEN [resolved EXCEPT !.batchUpdates = <<>>, !.updates = pushed \o @,
                              !.pc = "batchDelay", !.delayMs = BatchDelayMs,
                              !.pauses = Append(@, Len(cy.batches))]
        ELSE AfterBatches([resolved EXCEPT !.batchUpdates = <<>>,
                                           !.updates = pushed \o @])

\* A performSync that applies the updates it holds as soon as the first
\* batch that leaves some has been processed.
AfterLookup_WriteAfterBatch(cy, localStock, pushed) ==
    LET resolved ==
            [cy EXCEPT !.found = Append(@, localStock), !.retries = 0,
                       !.lookups = Append(@, [queries |-> cy.itemQueries,
                                              failures |-> cy.failures]),
                       !.itemQueries = 0, !.failures = 0,
                       !.batches[Len(cy.batches)] = Append(@, cy.products[cy.k + 1].id)]
    IN  IF cy.k + 1 < Min(cy.i + batchSize, Len(cy.products))
        THEN [resolved EXCEPT !.batchUpdates = pushed, !.k = @ + 1,
                              !.queries = @ + 1, !.itemQueries = 1]
        ELSE IF cy.i + batchSize < Len(cy.products) /\ cy.updates \o pushed = <<>>
        THEN [resolved EXCEPT !.batchUpdates = <<>>, !.updates = @ \o pushed,
                              !.pc = "batchDelay", !.delayMs = BatchDelayMs,
                              !.pauses = Append(@, Len(cy.batches))]
        ELSE AfterBatches([resolved EXCEPT !.batchUpdates = <<>>,
                                           !.updates = @ \o pushed])

\* A performSync that pauses after every batch, the last one included.
AfterLookup_PauseAfterLast(cy, localStock, pushed) ==
    LET resolved ==
            [cy EXCEPT !.found = Append(@, localStock), !.retries = 0,
                       !.lookups = Append(@, [queries |-> cy.itemQueries,
                                              failures |-> cy.failures]),
                       !.itemQueries = 0, !.failures = 0,
                       !.batches[Len(cy.batches)] = Append(@, cy.products[cy.k + 1].id)]
    IN  IF cy.k + 1 < Min(cy.i + batchSize, Len(cy.products))
        THEN [resolved EXCEPT !.batchUpdates = pushed, !.k = @ + 1,
                              !.queries = @ + 1, !.itemQueries = 1]
        ELSE [resolved EXCEPT !.batchUpdates = <<>>, !.updates = @ \o pushed,
                              !.pc = "batchDelay", !.delayMs = BatchDelayMs,
                              !.pauses = Append(@, Len(cy.batches))]

\* processBatch once getLocalStock has returned localStock for product k:
\* the next query of the batch or, when that ends the batch, performSync's
\* loop: the pause before the next batch, or the end of the loop.
AfterLookup(cy, localStock, pushed) ==
    LET resolved ==
            [cy EXCEPT !.found = Append(@, localStock), !.retries = 0,
                       !.lookups = Append(@, [queries |-> cy.itemQueries,
                                              failures |-> cy.failures]),
                       !.itemQueries = 0, !.failures = 0,
                       !.batches[Len(cy.batches)] = Append(@, cy.products[cy.k + 1].id)]
    IN  IF cy.k + 1 < Min(cy.i + batchSize, Len(cy.products))
        THEN [resolved EXCEPT !.batchUpdates = pushed, !.k = @ + 1,
                              !.queries = @ + 1, !.itemQueries = 1]
        ELSE IF cy.i + batchSize < Len(cy.products)
        THEN [resolved EXCEPT !.batchUpdates = <<>>, !.updates = @ \o pushed,
                              !.pc = "batchDelay", !.delayMs = BatchDelayMs,
                              !.pauses = Append(@, Len(cy.batches))]
        ELSE AfterBatches([resolved EXCEPT !.batchUpdates = <<>>,
                                           !.updates = @ \o pushed])

\* The batch's updates after the comparison of processBatch.
Pushed(cy, localStock) ==
    IF NeedsUpdate(localStock, cy.products[cy.k + 1].stock_quantity)
    THEN Append(cy.batchUpdates, UpdateFor(cy.products[cy.k + 1], localStock))
    ELSE cy.batchUpdates

\* A delay that doubles with every attempt.
RetryDelay_Exponential(retries) == RetryDelayMs * 2 ^ (retries - 1)

\* getLocalStock's wait before its next attempt: retryDelayMs * retries,
\* retries counted after the increment of the catch block.
RetryDelay(retries) == RetryDelayMs * retries

\* getLocalStock once its call of getStockByBarcode has ended with r, the
\* request behind it having failed or not: the next turn of its loop after
\* a wait, or processBatch with what it returns.
LookupStep(c, requestFailed, r) ==
    \E cur \in { [cycles[c] EXCEPT !.failures = IF requestFailed THEN @ + 1 ELSE @] } :
      \E a \in { getLocalStockAttempt(cur.retries, r) } :
        \E pushed \in { IF a.done THEN Pushed(cur, a.value) ELSE <<>> } :
          \E nxt \in { IF a.done
                       THEN AfterLookup(cur, a.value, pushed)
                       ELSE [cur EXCEPT !.pc = "retryDelay",
                                        !.retries = a.retries,
                                        !.delayMs = RetryDelay(a.retries)] } :
            Commit(c, nxt)

\* The query of getStockByBarcode for the current product returns or fails.
Lookup(c) ==
    /\ cycles[c].pc = "lookup"
    /\ \E outcome \in QueryOutcomes :
         \E r \in { QueryResult[outcome,
                                  localData[cycles[c].products[cycles[c].k + 1].sku.s]] } :
           LookupStep(c, outcome # "ok", r)
    /\ UNCHANGED <<wooCommerceOk, localApiOk, remote, localData, batchSize,
                   accepted, rejected>>

\* getLocalStock over a local API client whose getStockByBarcode may throw:
\* the call returns what the backend's body parses to, or throws.
LookupThrowing(c) ==
    /\ cycles[c].pc = "lookup"
    /\ \E r \in { [thrown |-> TRUE, value |-> NULL],
                  QueryResult["ok",
                              localData[cycles[c].products[cycles[c].k + 1].sku.s]] } :
         LookupStep(c, r.thrown, r)
    /\ UNCHANGED <<wooCommerceOk, localApiOk, remote, localData, batchSize,
                   accepted, rejected>>

\* performSync's for loop once the pause after a batch is over: i +=
\* batchSize, then the next call of processBatch while i < products.length,
\* and what follows the loop otherwise.
AfterBatchDelay(cy) ==
    IF cy.i + batchSize < Len(cy.products)
    THEN [cy EXCEPT !.pc = "lookup", !.i = @ + batchSize,
                    !.k = cy.i + batchSize, !.queries = @ + 1,
                    !.itemQueries = 1, !.delayMs = 0,
                    !.batches = Append(@, <<>>)]
    ELSE AfterBatches([cy EXCEPT !.i = @ + batchSize, !.delayMs = 0])

\* A timer of delay() fires: between two batches, between two writes, or
\* before the next attempt of getLocalStock.
DelayElapsed(c) ==
    /\ cycles[c].pc \in {"batchDelay", "writeDelay", "retryDelay"}
    /\ \E nxt \in { IF cycles[c].pc = "batchDelay"
                    THEN AfterBatchDelay(cycles[c])
                    ELSE IF cycles[c].pc = "writeDelay"
                    THEN [cycles[c] EXCEPT !.pc = "write", !.w = @ + 1,
                                           !.delayMs = 0]
                    ELSE [cycles[c] EXCEPT !.pc = "lookup", !.queries = @ + 1,
                                           !.itemQueries = @ + 1,
                                           !.delayMs = 0] } :
         Commit(c, nxt)
    /\ UNCHANGED <<wooCommerceOk, localApiOk, remote, localData,
                   batchSize, accepted, rejected>>

\* A batchUpdateStock that gives up at the first write that fails.
AfterWrite_StopOnFailure(cy, outcome, success) ==
    LET counted == [cy EXCEPT
                      !.successful = IF success THEN @ + 1 ELSE @,
                      !.failed = IF success THEN @ ELSE @ + 1,
                      !.writes = Append(@, [productId |-> cy.updates[cy.w + 1].productId,
                                            stockQuantity |-> cy.updates[cy.w + 1].stockQuantity,
                                            ok |-> outcome = "ok"])]
    IN  IF success /\ cy.w < Len(cy.updates) - 1
        THEN [counted EXCEPT !.pc = "writeDelay", !.delayMs = WriteDelayMs]
        ELSE [counted EXCEPT !.exit = "completed"]

\* A batchUpdateStock that issues the next write at once.
AfterWrite_NoDelay(cy, outcome, success) ==
    LET counted == [cy EXCEPT
                      !.successful = IF success THEN @ + 1 ELSE @,
                      !.failed = IF success THEN @ ELSE @ + 1,
                      !.writes = Append(@, [productId |-> cy.updates[cy.w + 1].productId,
                                            stockQuantity |-> cy.updates[cy.w + 1].stockQuantity,
                                            ok |-> outcome = "ok"])]
    IN  IF cy.w < Len(cy.updates) - 1
        THEN [counted EXCEPT !.w = @ + 1]
        ELSE [counted EXCEPT !.exit = "completed"]

\* batchUpdateStock once updateProductStock has answered for update w: the
\* pause before the next write, or the results that end the cycle.
AfterWrite(cy, outcome, success) ==
    LET counted == [cy EXCEPT
                      !.successful = IF success THEN @ + 1 ELSE @,
                      !.failed = IF success THEN @ ELSE @ + 1,
                      !.writes = Append(@, [productId |-> cy.updates[cy.w + 1].productId,
                                            stockQuantity |-> cy.updates[cy.w + 1].stockQuantity,
                                            ok |-> outcome = "ok"])]
    IN  IF cy.w < Len(cy.updates) - 1
        THEN [counted EXCEPT !.pc = "writeDelay", !.delayMs = WriteDelayMs]
        ELSE [counted EXCEPT !.exit = "completed"]

\* A number in the JSON body of a request: JSON has no Infinity and
\* JSON.stringify writes null for it.
JsonNumber(q) == IF q = Infinity \/ q = -Infinity THEN NULL ELSE Some(q)

\* The remote catalog after a PUT: the quantity of the request's body is
\* stored when the request is answered with the updated product.
RemoteAfterPut(update, outcome) ==
    IF outcome = "ok"
    THEN [remote EXCEPT ![update.productId].stock_quantity =
                          JsonNumber(update.stockQuantity)]
    ELSE remote

\* The PUT of batchUpdateStock for update w returns or fails.
Write(c) ==
    /\ cycles[c].pc = "write"
    /\ \E outcome \in PutOutcomes :
         \E r \in { updateProductStock(outcome) } :
           \E nxt \in { AfterWrite(cycles[c], outcome, ~r.thrown /\ r.value) } :
             /\ remote' = RemoteAfterPut(cycles[c].updates[cycles[c].w + 1], outcome)
             /\ Commit(c, nxt)
    /\ UNCHANGED <<wooCommerceOk, localApiOk, localData, batchSize, accepted,
                   rejected>>

\* performSync up to its first await.  A request is counted on arrival as
\* accepted (the service was idle) or rejected (a cycle was running).
PerformSync(caller) ==
    /\ isRunning => rejected < MaxRejected
    /\ accepted' = IF isRunning THEN accepted ELSE accepted + 1
    /\ rejected' = IF isRunning THEN rejected + 1 ELSE rejected
    /\ IF AlreadyRunning
       THEN /\ UNCHANGED <<isRunning, cycles>>
            /\ AfterPerformSync(caller, NoCycle, "returned")
       ELSE /\ Cardinality(Started) < MaxCycles
            /\ isRunning' = TRUE
            /\ cycles' = [cycles EXCEPT ![Cardinality(Started) + 1] =
                            [NoCycle EXCEPT !.pc = "fetch", !.caller = caller,
                                            !.statsAtStart = syncStats,
                                            !.startedIn = proc]]
            /\ IF caller \in {"start", "app"}
               THEN /\ startPc' = "initialSync"
                    /\ UNCHANGED <<cronJob, proc, exitCode>>
               ELSE UNCHANGED <<startPc, cronJob, proc, exitCode>>
    /\ UNCHANGED <<lastSyncTime, syncStats, wooCommerceOk, remote,
                   localData, batchSize>>

\* manualSync(), called on the service once start() has tested the
\* connections: during its initial synchronization or after it.
ManualSync ==
    /\ startPc \in {"initialSync", "started"}
    /\ PerformSync("manual")
    /\ UNCHANGED localApiOk

\* The cron callback of setupScheduledSync.
CronTick ==
    /\ cronJob = "active"
    /\ IF ~isRunning
       THEN PerformSync("cron")
       ELSE /\ rejected < MaxRejected
            /\ rejected' = rejected + 1
            /\ UNCHANGED <<isRunning, lastSyncTime, syncStats, cronJob, startPc,
                           wooCommerceOk, proc, cycles, remote, localData, batchSize, exitCode,
                           accepted>>
    /\ UNCHANGED localApiOk

\* A testConnections that looks at the remote catalog's test only.
testConnections_RemoteOnly(wooOk, localOk) ==
    IF ~wooOk THEN "threw" ELSE "returned"

\* testConnections once both tests have answered: it throws when the first
\* failed, and when the second did.
testConnections(wooOk, localOk) ==
    IF ~wooOk THEN "threw"
    ELSE IF ~localOk THEN "threw"
    ELSE "returned"

\* start() up to its first await, inside testConnections.
StartService ==
    /\ startPc = "new"
    /\ startPc' = "testWoo"
    /\ UNCHANGED <<isRunning, lastSyncTime, syncStats, cronJob, wooCommerceOk,
                   localApiOk, proc, cycles, remote, localData, batchSize, exitCode, accepted,
                   rejected>>

\* woocommerce.testConnection() returns.
TestWooReturns ==
    /\ startPc = "testWoo"
    /\ \E ok \in BOOLEAN : wooCommerceOk' = ok
    /\ startPc' = "testLocal"
    /\ UNCHANGED <<isRunning, lastSyncTime, syncStats, cronJob, localApiOk,
                   proc, cycles, remote, localData, batchSize, exitCode, accepted, rejected>>

\* localApi.testConnection() returns: testConnections throws or start()
\* goes on to the initial performSync.
TestLocalReturns ==
    /\ startPc = "testLocal"
    /\ \E ok \in BOOLEAN :
         /\ localApiOk' = ok
         /\ IF testConnections(wooCommerceOk, ok) = "threw"
            THEN /\ startPc' = "failed"
                 /\ UNCHANGED <<isRunning, lastSyncTime, syncStats, cronJob,
                                wooCommerceOk, proc, cycles, remote, localData, batchSize, exitCode,
                                accepted, rejected>>
            ELSE PerformSync("start")

CycleStep ==
    \E c \in CycleIds : FetchPage(c) \/ Lookup(c) \/ DelayElapsed(c) \/ Write(c)

Next ==
    \/ StartService
    \/ TestWooReturns
    \/ TestLocalReturns
    \/ ManualSync
    \/ CronTick
    \/ CycleStep

Spec == Init /\ [][Next]_vars

\* Every request of the code's own clients gets its answer: a page request,
\* a barcode query and a PUT return or fail, and a timer fires.
LiveSpec == Spec /\ WF_vars(CycleStep)

\* start() and its initial synchronization over a local API client whose
\* getStockByBarcode may throw: what getLocalStock does with a call that
\* throws.
CycleStepThrowing ==
    \E c \in CycleIds :
        FetchPage(c) \/ LookupThrowing(c) \/ DelayElapsed(c) \/ Write(c)

NextThrowing ==
    \/ StartService
    \/ TestWooReturns
    \/ TestLocalReturns
    \/ CycleStepThrowing

ThrowingSpec == Init /\ [][NextThrowing]_vars

\* start() and its initial synchronization of a catalog of one or two
\* matchable products against a local backend that answers with any body
\* of the wider set: what parseStockData and extractStockQuantity make of
\* a body.
InitResponse ==
    /\ InitService
    /\ remote \in {Catalog(n, 1) : n \in 1..2}
    /\ localData \in ResponseBackends
    /\ batchSize = BatchSize

NextResponse ==
    \/ StartService
    \/ TestWooReturns
    \/ TestLocalReturns
    \/ CycleStep

ResponseSpec == InitResponse /\ [][NextResponse]_vars

\* start() and its initial synchronization in a service configured with
\* any batch size from 1 on: how performSync cuts the catalog into batches.
InitBatch ==
    /\ InitService
    /\ remote \in Catalogs
    /\ localData \in LocalBackends
    /\ batchSize \in 1..MaxBatchSize

BatchSpec == InitBatch /\ [][NextResponse]_vars

\* gracefulShutdown on SIGINT or SIGTERM: stop() cancels the cron job the
\* service holds at that moment, and the timer of the grace period is set.
\* A signal is handled only once main() has run to start()'s first await.
GracefulShutdown ==
    /\ proc # "exited"
    /\ startPc # "new"
    /\ proc' = "shuttingDown"
    /\ cronJob' = "null"
    /\ UNCHANGED <<isRunning, lastSyncTime, syncStats, startPc, wooCommerceOk,
                   localApiOk, cycles, remote, localData, batchSize, exitCode, accepted, rejected>>

\* The timer of gracefulShutdown fires: process.exit(0).
GraceElapsed ==
    /\ proc = "shuttingDown"
    /\ proc' = "exited"
    /\ exitCode' = Some(0)
    /\ UNCHANGED <<isRunning, lastSyncTime, syncStats, cronJob, startPc,
                   wooCommerceOk, localApiOk, cycles, remote, localData, batchSize,
                   accepted, rejected>>

\* The callbacks of the service run as long as the process lives.
ServiceStep == proc # "exited" /\ Next

NextShutdown ==
    \/ ServiceStep
    \/ GracefulShutdown
    \/ GraceElapsed

\* The service in a process that receives shutdown signals.
ShutdownSpec == Init /\ [][NextShutdown]_vars

\* localApi.testConnection() returns in testConnections called by the
\* --manual-sync closure of app.js: the closure's catch block exits when
\* testConnections throws, and the closure goes on to performSync
\* otherwise.
ManualTestLocalReturns ==
    /\ startPc = "testLocal"
    /\ \E ok \in BOOLEAN :
         /\ localApiOk' = ok
         /\ IF testConnections(wooCommerceOk, ok) = "threw"
            THEN /\ startPc' = "failed"
                 /\ proc' = "exited"
                 /\ exitCode' = Some(ManualSyncExitCode(NoCycle, "threw"))
                 /\ UNCHANGED <<isRunning, lastSyncTime, syncStats, cronJob,
                                wooCommerceOk, cycles, remote, localData,
                                batchSize, accepted, rejected>>
            ELSE PerformSync("app")

\* The callbacks of `node app.js --manual-sync` run as long as the process
\* lives: the closure up to its first await (inside testConnections, as
\* in start()), the two connection tests, the steps of the cycle.
ManualStep ==
    /\ proc # "exited"
    /\ \/ StartService
       \/ TestWooReturns
       \/ ManualTestLocalReturns
       \/ CycleStep

NextManual ==
    \/ ManualStep
    \/ GracefulShutdown
    \/ GraceElapsed

\* `node app.js --manual-sync` in a process that receives shutdown signals.
ManualSpec == Init /\ [][NextManual]_vars

\* ------------------------------------------------------------------ claims
Running(cy) == cy.pc \notin {"none", "done"}

\* C1: at most one cycle runs at a time, and a request that arrives while
\* isRunning is true changes nothing: not isRunning, not a statistic, not
\* a cycle's frame (so no fetch, lookup or write is issued for it and the
\* running cycle goes on as it would have), not the remote catalog.
C1_RequestWhileRunningIsSkipped ==
    /\ [](Cardinality(Active) <= 1)
    /\ [][ (isRunning /\ rejected' = rejected + 1)
           => UNCHANGED <<isRunning, lastSyncTime, syncStats, cronJob, startPc,
                          cycles, remote, localData, batchSize, exitCode, accepted>> ]_vars

\* C1 witness: a request was rejected and the cycle it met went on to
\* write and to complete.
C1_Witness ==
    /\ rejected > 0
    /\ \E c \in CycleIds :
         /\ cycles[c].exit = "completed"
         /\ cycles[c].writes # <<>>
         /\ cycles[c].caller # "start"

\* C2: a rejected request is dropped: the cycles ever started are as many
\* as the requests that arrived while the service was idle, and a cycle
\* starts only in the step in which such a request arrives.
C2_RejectedIsNeverQueued ==
    /\ [](Cardinality(Started) = accepted)
    /\ [][ Started' # Started => (~isRunning /\ accepted' = accepted + 1) ]_vars

\* C2 witness: a request was rejected, the service is idle again, and the
\* cycles started are those of the two requests that met it idle.
C2_Witness ==
    /\ rejected > 0
    /\ ~isRunning
    /\ accepted = 2
    /\ Cardinality(Started) = 2

\* C3: every cycle that runs ends with isRunning false, however it ends;
\* isRunning is true only while a cycle runs; and a request that meets the
\* service idle starts a cycle.
C3_RunningReturnsToIdle ==
    /\ \A c \in CycleIds :
         Running(cycles[c]) ~> (cycles[c].pc = "done" /\ ~isRunning)
    /\ [](isRunning <=> Active # {})
    /\ [][ (~isRunning /\ accepted' = accepted + 1) => Started' # Started ]_vars

\* C3 witness: a cycle ended on a catalog-fetch failure, one on an empty
\* catalog or at its normal end, and the later request was accepted.
C3_Witness ==
    /\ ~isRunning
    /\ cycles[1].exit = "caught"
    /\ cycles[2].exit \in {"empty", "completed"}

\* The writes a cycle owes after the lookups it has made: one for every
\* item whose lookup was found with a quantity other than the item's
\* stock_quantity, carrying the local quantity, in catalog order.
RECURSIVE OwedWritesFrom(_, _)
OwedWritesFrom(cy, n) ==
    IF n > Len(cy.found) THEN <<>>
    ELSE (IF cy.found[n] # NULL /\ TheValue(cy.found[n]) # cy.products[n].stock_quantity
          THEN << [productId |-> cy.products[n].id,
                   stockQuantity |-> TheValue(cy.found[n])] >>
          ELSE <<>>)
         \o OwedWritesFrom(cy, n + 1)

WritesIssued(cy) ==
    [ n \in 1..Len(cy.writes) |->
        [productId |-> cy.writes[n].productId,
         stockQuantity |-> cy.writes[n].stockQuantity] ]

\* C4: the writes a cycle attempts are those of the items found with a
\* quantity other than the item's remote stock quantity, each carrying the
\* local quantity: never another write, and all of them once the cycle
\* has completed.
C4_WriteIffFoundAndDifferent ==
    \A c \in CycleIds :
        LET cy == cycles[c]
            owed == OwedWritesFrom(cy, 1)
            issued == WritesIssued(cy)
        IN  /\ Len(issued) <= Len(owed)
            /\ issued = SubSeq(owed, 1, Len(issued))
            /\ cy.exit = "completed" => issued = owed
            /\ cy.pc = "write" => Len(cy.found) = Len(cy.products)

\* C4 witness: a completed cycle wrote one item and left alone another
\* whose local quantity equals its remote quantity.
C4_Witness ==
    \E c \in CycleIds :
        /\ cycles[c].exit = "completed"
        /\ cycles[c].writes # <<>>
        /\ \E n \in 1..Len(cycles[c].found) :
             /\ cycles[c].found[n] # NULL
             /\ TheValue(cycles[c].found[n]) = cycles[c].products[n].stock_quantity

\* C5: an item whose lookup yields nothing usable (no row, or a failed
\* query) is not found, and no write of the cycle is for it.
C5_NotFoundIsNeverWritten ==
    \A c \in CycleIds :
        \A n \in 1..Len(cycles[c].found) :
            LET cy == cycles[c]
                product == cy.products[n]
            IN  /\ parseStockData(localData[product.sku.s]) = NULL
                     => cy.found[n] = NULL
                /\ cy.found[n] = NULL
                     => /\ \A m \in 1..Len(cy.writes) :
                             cy.writes[m].productId # product.id
                        /\ \A m \in 1..Len(cy.updates) :
                             cy.updates[m].productId # product.id

\* C5 witness: a completed cycle wrote some item and not the one that was
\* not found, whose remote quantity is not 0.
C5_Witness ==
    \E c \in CycleIds :
        /\ cycles[c].exit = "completed"
        /\ cycles[c].writes # <<>>
        /\ \E n \in 1..Len(cycles[c].found) :
             /\ cycles[c].found[n] = NULL
             /\ cycles[c].products[n].stock_quantity # 0

\* C6: a local quantity of 0 is found, and for an item whose remote
\* quantity is not 0 the cycle emits an update with new quantity 0.
C6_ZeroIsAQuantity ==
    \A c \in CycleIds :
        \A n \in 1..Len(cycles[c].found) :
            LET cy == cycles[c]
                product == cy.products[n]
                emitted == cy.updates \o cy.batchUpdates
            IN  (cy.found[n] = Some(0) /\ product.stock_quantity # 0)
                => \E m \in 1..Len(emitted) :
                     /\ emitted[m].productId = product.id
                     /\ emitted[m].stockQuantity = 0

\* C6 witness: the local backend answered 0 for an item in stock and the
\* write of 0 reached the remote catalog.
C6_Witness ==
    \E c \in CycleIds :
        \E n \in 1..Len(cycles[c].found) :
            /\ cycles[c].found[n] = Some(0)
            /\ cycles[c].products[n].stock_quantity = 1
            /\ \E m \in 1..Len(cycles[c].writes) :
                 /\ cycles[c].writes[m].productId = cycles[c].products[n].id
                 /\ cycles[c].writes[m].stockQuantity = 0
                 /\ cycles[c].writes[m].ok
            /\ remote[cycles[c].products[n].id].stock_quantity = Some(0)

C8_NoPartialCatalog ==
    \A c \in CycleIds :
        cycles[c].fetchError
        => /\ cycles[c].products = <<>>
           /\ cycles[c].exit = "caught"

\* C8 witness: the request that failed came after a page with products.
C8_Witness ==
    \E c \in CycleIds :
        /\ cycles[c].fetchError
        /\ cycles[c].allProducts # <<>>

\* C9: a cycle whose catalog fetch failed issues no barcode query, resolves
\* no item and attempts no write.
C9_FetchFailureStopsTheCycle ==
    \A c \in CycleIds :
        cycles[c].fetchError
        => /\ cycles[c].queries = 0
           /\ cycles[c].found = <<>>
           /\ cycles[c].updates = <<>>
           /\ cycles[c].writes = <<>>

\* C9 witness: the fetch failed on its second page, and the cycle ended
\* without a query.
C9_Witness ==
    \E c \in CycleIds :
        /\ cycles[c].fetchError
        /\ cycles[c].page = 2
        /\ cycles[c].pc = "done"
        /\ cycles[c].queries = 0

\* C10: performSync fails towards its caller exactly when its catalog
\* fetch failed; failed lookups and failed writes never make it fail.
C10_FetchFailurePropagates ==
    \A c \in CycleIds :
        cycles[c].pc = "done"
        => (cycles[c].result = "threw" <=> cycles[c].fetchError)

\* C11: a lookup every query of which failed (timeout, no response,
\* error status) has issued the query maxRetries times.
C11_FailedQueryIsRetried ==
    \A c \in CycleIds :
        \A n \in 1..Len(cycles[c].lookups) :
            cycles[c].lookups[n].failures = cycles[c].lookups[n].queries
            => cycles[c].lookups[n].queries = MaxRetries

C13_EmptyResponseIsNotRetried ==
    \A c \in CycleIds :
        \A n \in 1..Len(cycles[c].lookups) :
            (/\ cycles[c].lookups[n].failures = 0
             /\ parseStockData(localData[cycles[c].products[n].sku.s]) = NULL)
            => /\ cycles[c].lookups[n].queries = 1
               /\ cycles[c].found[n] = NULL

\* C13 witness: a cycle met an empty array for one item and a record
\* without a quantity field for another, no query having failed.
C13_Witness ==
    \E c \in CycleIds :
        /\ cycles[c].exit = "completed"
        /\ \E n, m \in 1..Len(cycles[c].lookups) :
             /\ cycles[c].lookups[n] = [queries |-> 1, failures |-> 0]
             /\ cycles[c].lookups[m] = [queries |-> 1, failures |-> 0]
             /\ localData[cycles[c].products[n].sku.s] = RespArray(<<>>)
             /\ localData[cycles[c].products[m].sku.s].kind = "object"
             /\ cycles[c].found[n] = NULL
             /\ cycles[c].found[m] = NULL

\* Every query for item n of the cycle failed.
LookupFailed(cy, n) ==
    /\ cy.lookups[n].failures > 0
    /\ cy.lookups[n].failures = cy.lookups[n].queries

HasFailedLookup(cy) == \E n \in 1..Len(cy.lookups) : LookupFailed(cy, n)

\* What the local backend's body for a sku resolves to.
Resolved(sku) ==
    LET stockData == parseStockData(localData[sku])
    IN  IF stockData # NULL /\ TheValue(stockData).available
        THEN Some(TheValue(stockData).stockQuantity)
        ELSE NULL

\* C14: an item every query for which failed is not found, and only it:
\* the items whose query was answered resolve as the backend answers; the
\* cycle is not aborted, it goes on to look every item up, to attempt the
\* updates it accumulated and to complete.
C14_FailedLookupDoesNotAbort ==
    /\ [](\A c \in CycleIds :
            \A n \in 1..Len(cycles[c].lookups) :
                cycles[c].found[n] =
                    IF LookupFailed(cycles[c], n)
                    THEN NULL
                    ELSE Resolved(cycles[c].products[n].sku.s))
    /\ [](\A c \in CycleIds :
            HasFailedLookup(cycles[c])
            => /\ cycles[c].exit \in {"pending", "completed"}
               /\ cycles[c].exit = "completed"
                    => /\ Len(cycles[c].lookups) = Len(cycles[c].products)
                       /\ Len(cycles[c].writes) = Len(cycles[c].updates))
    /\ \A c \in CycleIds :
         HasFailedLookup(cycles[c]) ~> (cycles[c].exit = "completed")

\* C14 witness: a completed cycle whose first lookup failed found a later
\* item and wrote it.
C14_Witness ==
    \E c \in CycleIds :
        /\ cycles[c].exit = "completed"
        /\ LookupFailed(cycles[c], 1)
        /\ \E n \in 2..Len(cycles[c].lookups) :
             /\ cycles[c].found[n] # NULL
             /\ \E m \in 1..Len(cycles[c].writes) :
                  cycles[c].writes[m].productId = cycles[c].products[n].id

RECURSIVE FailedLookupsFrom(_, _)
FailedLookupsFrom(cy, n) ==
    IF n > Len(cy.lookups) THEN 0
    ELSE (IF LookupFailed(cy, n) THEN 1 ELSE 0) + FailedLookupsFrom(cy, n + 1)

\* The errors of the cycles from c on: failed writes, a failed catalog
\* fetch, and items whose lookup failed.
RECURSIVE ErrorsWithLookupsFrom(_)
ErrorsWithLookupsFrom(c) ==
    IF c > MaxCycles THEN 0
    ELSE cycles[c].failed
         + (IF cycles[c].exit = "caught" THEN 1 ELSE 0)
         + FailedLookupsFrom(cycles[c], 1)
         + ErrorsWithLookupsFrom(c + 1)

\* C15: once the cycles have ended, totalErrors counts one error for every
\* item whose lookup failed, next to the failed writes and failed fetches.
C15_FailedLookupIsCounted ==
    Active = {} => syncStats.totalErrors = ErrorsWithLookupsFrom(1)

\* The number of writes among the first n that were answered with the
\* updated product.
RECURSIVE OkWrites(_, _)
OkWrites(cy, n) ==
    IF n = 0 THEN 0
    ELSE (IF cy.writes[n].ok THEN 1 ELSE 0) + OkWrites(cy, n - 1)

\* C16: the writes attempted are the accumulated updates, one write each
\* and in their order, whatever the earlier writes did; a write that was
\* not answered with the updated product is counted failed, the others
\* successful; a completed cycle has attempted them all.
C16_EveryUpdateAttemptedOnce ==
    \A c \in CycleIds :
        LET cy == cycles[c]
        IN  /\ Len(cy.writes) <= Len(cy.updates)
            /\ \A n \in 1..Len(cy.writes) :
                 /\ cy.writes[n].productId = cy.updates[n].productId
                 /\ cy.writes[n].stockQuantity = cy.updates[n].stockQuantity
            /\ cy.successful = OkWrites(cy, Len(cy.writes))
            /\ cy.successful + cy.failed = Len(cy.writes)
            /\ cy.exit = "completed" => Len(cy.writes) = Len(cy.updates)

\* C16 witness: the first write of a completed cycle failed and its second
\* was applied.
C16_Witness ==
    \E c \in CycleIds :
        /\ cycles[c].exit = "completed"
        /\ Len(cycles[c].writes) >= 2
        /\ ~cycles[c].writes[1].ok
        /\ cycles[c].writes[2].ok
        /\ cycles[c].successful + cycles[c].failed = Len(cycles[c].updates)

\* The place of a product in the list the catalog fetch returned.
PlaceOf(cy, productId) ==
    CHOOSE n \in 1..Len(cy.products) : cy.products[n].id = productId

\* C17: the updates a cycle accumulates and the writes it issues follow
\* the order of the list the catalog fetch returned, whatever batch an
\* item was looked up in.
C17_WritesInCatalogOrder ==
    \A c \in CycleIds :
        LET cy == cycles[c]
        IN  /\ \A a, b \in 1..Len(cy.updates) :
                 a < b => PlaceOf(cy, cy.updates[a].productId)
                            < PlaceOf(cy, cy.updates[b].productId)
            /\ \A a, b \in 1..Len(cy.writes) :
                 a < b => PlaceOf(cy, cy.writes[a].productId)
                            < PlaceOf(cy, cy.writes[b].productId)

\* C17 witness: a completed cycle wrote an item of its first batch and
\* then one of its second batch.
C17_Witness ==
    \E c \in CycleIds :
        /\ cycles[c].exit = "completed"
        /\ Len(cycles[c].writes) >= 2
        /\ PlaceOf(cycles[c], cycles[c].writes[1].productId) <= BatchSize
        /\ PlaceOf(cycles[c], cycles[c].writes[2].productId) > BatchSize

\* C18: one write is in flight at most; when write number w is in flight
\* the w writes before it have returned; and but for the first, a write is
\* issued only when the timer of the fixed delay, set after the write
\* before it, fires.
C18_WritesOneAtATimeWithDelay ==
    /\ [](Cardinality({c \in CycleIds : cycles[c].pc = "write"}) <= 1)
    /\ [](\A c \in CycleIds :
            /\ cycles[c].pc = "write" => Len(cycles[c].writes) = cycles[c].w
            /\ cycles[c].pc = "writeDelay"
                 => /\ cycles[c].delayMs = WriteDelayMs
                    /\ Len(cycles[c].writes) = cycles[c].w + 1)
    /\ [][ \A c \in CycleIds :
             (/\ (cycles[c].pc)' = "write"
              /\ (cycles[c].pc # "write" \/ (cycles[c].w)' # cycles[c].w))
             => \/ /\ (cycles[c].w)' = 0
                   /\ cycles[c].writes = <<>>
                \/ /\ cycles[c].pc = "writeDelay"
                   /\ cycles[c].delayMs = WriteDelayMs
                   /\ (cycles[c].w)' = cycles[c].w + 1 ]_vars

\* C18 witness: the second write of a cycle is in flight, the first
\* having returned and the delay having elapsed.
C18_Witness ==
    \E c \in CycleIds :
        /\ cycles[c].pc = "write"
        /\ cycles[c].w = 1
        /\ Len(cycles[c].writes) = 1
        /\ cycles[c].delayMs = 0

\* getAllProducts has returned its list to the cycle.
Fetched(cy) == cy.pc \notin {"none", "fetch"} /\ ~cy.fetchError

\* C19: the sizes recorded are the raw sizes of the pages; every page
\* before the last one received was full; a request is in flight only
\* after full pages, for the page that follows them; and getAllProducts
\* returns only after a page that was short or empty.
C19_PagingStopsAtFirstShortPage ==
    \A c \in CycleIds :
        LET cy == cycles[c]
            sizes == cy.pageSizes
        IN  /\ \A n \in 1..Len(sizes) : sizes[n] = Len(PageOf(remote, n))
            /\ \A n \in 1..(Len(sizes) - 1) : sizes[n] = PerPage
            /\ cy.pc = "fetch"
                 => /\ cy.page = Len(sizes) + 1
                    /\ \A n \in 1..Len(sizes) : sizes[n] = PerPage
            /\ Fetched(cy)
                 => /\ Len(sizes) >= 1
                    /\ sizes[Len(sizes)] < PerPage

\* C19 witness: a full page that held a product without sku was followed
\* by the request of the next page, which was short and the last.
C19_Witness ==
    \E c \in CycleIds :
        /\ Fetched(cycles[c])
        /\ Len(cycles[c].pageSizes) = 2
        /\ cycles[c].pageSizes[1] = PerPage
        /\ cycles[c].pageSizes[2] \in 1..(PerPage - 1)
        /\ \E n \in 1..PerPage : ~HasSku(remote[n])

\* A product's identity in the remote catalog.
IdAndSku(product) == [id |-> product.id, sku |-> product.sku]

IdsAndSkus(products) == [n \in 1..Len(products) |-> IdAndSku(products[n])]

\* C20: for a catalog of N products getAllProducts never requests a page
\* past number N div perPage + 1, returns after exactly that many
\* requests, and returns the products that pass its sku filter, each once,
\* in the order of the catalog, with the stock quantity the catalog holds
\* (as long as neither this cycle nor a later one has written to it).
C20_FetchReturnsWholeCatalog ==
    \A c \in CycleIds :
        LET cy == cycles[c]
            N == Len(remote)
        IN  /\ cy.page <= (N \div PerPage) + 1
            /\ Fetched(cy)
                 => /\ Len(cy.pageSizes) = (N \div PerPage) + 1
                    /\ IdsAndSkus(cy.products)
                         = IdsAndSkus(SelectSeq(remote, HasSku))
                    /\ (\A d \in CycleIds : d >= c => cycles[d].writes = <<>>)
                         => cy.products = MapProducts(SelectSeq(remote, HasSku))

\* C20 witness: a catalog of the greatest size, longer than a page, was
\* fetched, and all its products but one passed the sku filter.
C20_Witness ==
    \E c \in CycleIds :
        /\ Fetched(cycles[c])
        /\ Len(remote) = MaxProducts
        /\ Len(cycles[c].pageSizes) = (MaxProducts \div PerPage) + 1
        /\ Len(cycles[c].products) = MaxProducts - 1

\* A sku that is missing, empty or made of white space only.
BlankSku(sku) ==
    \/ sku.t # "string"
    \/ \A n \in 1..Len(sku.s) : sku.s[n] \in {" ", "\t", "\n"}

\* C21: no product with a blank sku is in what getAllProducts has gathered
\* or returned, and no update or write of a cycle is for such a product of
\* the remote catalog; every lookup of a cycle is for a product of the
\* returned list.
C21_BlankSkuNeverSynced ==
    \A c \in CycleIds :
        LET cy == cycles[c]
        IN  /\ \A n \in 1..Len(cy.allProducts) : ~BlankSku(cy.allProducts[n].sku)
            /\ \A n \in 1..Len(cy.products) : ~BlankSku(cy.products[n].sku)
            /\ Len(cy.lookups) <= Len(cy.products)
            /\ \A n \in 1..Len(cy.updates) :
                 ~BlankSku(remote[cy.updates[n].productId].sku)
            /\ \A n \in 1..Len(cy.writes) :
                 ~BlankSku(remote[cy.writes[n].productId].sku)

\* C21 witness: a cycle over a catalog holding a white-space sku and an
\* empty sku next to a matchable one completed with a write.
C21_Witness ==
    \E c \in CycleIds :
        /\ cycles[c].exit = "completed"
        /\ cycles[c].writes # <<>>
        /\ Len(cycles[c].products) < Len(remote)
        /\ \E n \in 1..Len(remote) : remote[n].sku = Str(<<" ", "\t">>)
        /\ \E n \in 1..Len(remote) : remote[n].sku = Str(<<>>)

\* C22: a cycle whose catalog fetch returned an empty list has ended, by
\* a normal return, without a query, an update or a write; and the step in
\* which the empty list arrives leaves the statistics and lastSyncTime as
\* they were and the service idle.
C22_EmptyCatalogEndsTheCycle ==
    /\ [](\A c \in CycleIds :
            cycles[c].exit = "empty"
            => /\ cycles[c].pc = "done"
               /\ cycles[c].result = "returned"
               /\ ~cycles[c].fetchError
               /\ cycles[c].queries = 0
               /\ cycles[c].lookups = <<>>
               /\ cycles[c].updates = <<>>
               /\ cycles[c].writes = <<>>)
    /\ [][ \A c \in CycleIds :
             (cycles[c].exit = "pending" /\ (cycles[c].exit)' = "empty")
             => /\ syncStats' = syncStats
                /\ lastSyncTime' = lastSyncTime
                /\ ~isRunning' ]_vars

\* C22 witness: a catalog none of whose products has a sku gave an empty
\* list; the cycle ended, no error counted, the service idle.
C22_Witness ==
    \E c \in CycleIds :
        /\ cycles[c].exit = "empty"
        /\ Len(remote) > 0
        /\ ~isRunning
        /\ syncStats.totalErrors = 0

\* The lookup of item n of the cycle got its answer from the backend.
Answered(cy, n) == cy.lookups[n].failures = 0

\* The body the local backend holds for item n of the cycle.
BodyOf(cy, n) == localData[cy.products[n].sku.s]

\* An element of an array body yields a quantity.
Yields(item) ==
    /\ item.elem = "object"
    /\ extractStockQuantity(item.obj) # NULL

\* The sum of the quantities of the yielding elements among the first n.
RECURSIVE YieldedSum(_, _)
YieldedSum(items, n) ==
    IF n = 0 THEN 0
    ELSE (IF Yields(items[n]) THEN TheValue(extractStockQuantity(items[n].obj)) ELSE 0)
         + YieldedSum(items, n - 1)

\* C23: an item whose query was answered with an array is found exactly
\* when some element of the array yields a quantity, and its quantity is
\* then the sum of the quantities of the elements that yield one.
C23_ArrayIsSummed ==
    \A c \in CycleIds :
        \A n \in 1..Len(cycles[c].lookups) :
            LET body == BodyOf(cycles[c], n)
            IN  (Answered(cycles[c], n) /\ body.kind = "array")
                => cycles[c].found[n] =
                     IF \E m \in 1..Len(body.items) : Yields(body.items[m])
                     THEN Some(YieldedSum(body.items, Len(body.items)))
                     ELSE NULL

\* C23 witness: an array of a row with stock 2, a row with stock -1 and a
\* row with stok "1.000" resolved to 3: the rejected row added nothing.
C23_Witness ==
    \E c \in CycleIds :
        \E n \in 1..Len(cycles[c].lookups) :
            /\ Answered(cycles[c], n)
            /\ BodyOf(cycles[c], n) =
                 RespArray(<< ElemObj([stock |-> Num(2000)]),
                              ElemObj([stock |-> Num(-1000)]),
                              ElemObj([stok |-> Str(<<"1", ".", "0", "0", "0">>)]) >>)
            /\ cycles[c].found[n] = Some(3)

\* The order in which the fields of the model's records are probed.
ProbeOrder == <<"stock", "stok", "qty">>

\* The quantity a field value stands for: a number that is not negative,
\* or a string that parses to one, floored; nothing otherwise.
Usable(v) ==
    IF v.t = "number" /\ v.v >= 0 THEN Some(v.v \div 1000)
    ELSE IF v.t = "string" /\ parseFloat(v.s).t = "number" /\ parseFloat(v.s).v >= 0
    THEN Some(parseFloat(v.s).v \div 1000)
    ELSE NULL

UsablePlaces(obj) ==
    { i \in 1..Len(ProbeOrder) :
        ProbeOrder[i] \in DOMAIN obj /\ Usable(obj[ProbeOrder[i]]) # NULL }

\* C24: an item whose query was answered with a record resolves to the
\* quantity of the first field, in the order stock, stok, qty, that holds
\* a usable value, whatever the fields before it (rejected) and after it
\* hold; it is not found when no field holds one.
C24_FirstUsableFieldWins ==
    \A c \in CycleIds :
        \A n \in 1..Len(cycles[c].lookups) :
            LET body == BodyOf(cycles[c], n)
            IN  (Answered(cycles[c], n) /\ body.kind = "object")
                => cycles[c].found[n] =
                     IF UsablePlaces(body.obj) = {}
                     THEN NULL
                     ELSE LET first == CHOOSE i \in UsablePlaces(body.obj) :
                                          \A j \in UsablePlaces(body.obj) : i <= j
                          IN  Usable(body.obj[ProbeOrder[first]])

\* C24 witness: stock holds -1, stok "5.7" and qty 2: the item resolved
\* to 5.
C24_Witness ==
    \E c \in CycleIds :
        \E n \in 1..Len(cycles[c].lookups) :
            /\ Answered(cycles[c], n)
            /\ BodyOf(cycles[c], n) =
                 RespObject([stock |-> Num(-1000), stok |-> Str(<<"5", ".", "7">>),
                             qty |-> Num(2000)])
            /\ cycles[c].found[n] = Some(5)

\* Values with their floors: 5.7 and "5.7" give 5, "0.000" gives 0, 2
\* gives 2.
FloorExamples ==
    { <<Num(5700), 5>>, <<Str(<<"5", ".", "7">>), 5>>,
      <<Str(<<"0", ".", "0", "0", "0">>), 0>>, <<Num(2000), 2>> }

\* C25: an item whose record holds one of the example values in its only
\* field resolves to the floor of the value, and an update is emitted for
\* it exactly when that floor differs from its remote quantity.
C25_QuantityIsFloored ==
    \A c \in CycleIds :
        \A n \in 1..Len(cycles[c].lookups) :
            \A field \in ProbedFields :
                \A e \in FloorExamples :
                    LET cy == cycles[c]
                        emitted == cy.updates \o cy.batchUpdates
                    IN  (/\ Answered(cy, n)
                         /\ BodyOf(cy, n) = RespObject([f \in {field} |-> e[1]]))
                        => /\ cy.found[n] = Some(e[2])
                           /\ (\E m \in 1..Len(emitted) :
                                   emitted[m].productId = cy.products[n].id)
                              <=> e[2] # cy.products[n].stock_quantity

\* C25 witness: stok "0.000" against a remote quantity of 0: found with
\* quantity 0, and the completed cycle emitted no update for the item.
C25_Witness ==
    \E c \in CycleIds :
        \E n \in 1..Len(cycles[c].lookups) :
            /\ cycles[c].exit = "completed"
            /\ Answered(cycles[c], n)
            /\ BodyOf(cycles[c], n) =
                 RespObject([stok |-> Str(<<"0", ".", "0", "0", "0">>)])
            /\ cycles[c].products[n].stock_quantity = 0
            /\ cycles[c].found[n] = Some(0)
            /\ \A m \in 1..Len(cycles[c].updates) :
                 cycles[c].updates[m].productId # cycles[c].products[n].id

\* C26: when both connection tests have answered, start() fails if one
\* of them reported failure and goes on to its initial synchronization
\* otherwise; a service whose start failed has started no cycle and has no
\* schedule, and a cycle or a schedule exists only after both tests passed.
C26_FailedConnectivityStartsNothing ==
    /\ [][ (startPc = "testLocal" /\ startPc' # "testLocal")
           => IF wooCommerceOk /\ localApiOk'
              THEN startPc' = "initialSync" /\ Started' # {}
              ELSE startPc' = "failed" ]_vars
    /\ [](startPc = "failed"
            => /\ ~wooCommerceOk \/ ~localApiOk
               /\ Started = {}
               /\ accepted = 0
               /\ ~isRunning
               /\ cronJob = "null")
    /\ []((Started # {} \/ cronJob = "active") => (wooCommerceOk /\ localApiOk))

\* C26 witness: the remote catalog's test passed, the local backend's
\* failed, and start() failed.
C26_Witness ==
    /\ startPc = "failed"
    /\ wooCommerceOk
    /\ ~localApiOk
    /\ Started = {}

StatCounters == {"totalSyncs", "totalProducts", "totalUpdates", "totalErrors"}

\* C27: whenever a cycle is running, getStats reports isRunning and the
\* four counters as they were when the cycle started; the statistics
\* change only in the step that ends a cycle; and no counter ever
\* decreases.
C27_StatsChangeOnlyAtCycleEnd ==
    /\ [](\A c \in Active :
            /\ getStats.isRunning
            /\ \A k \in StatCounters : getStats[k] = cycles[c].statsAtStart[k])
    /\ [][ syncStats' # syncStats
           => /\ isRunning /\ ~isRunning'
              /\ \E c \in CycleIds :
                   cycles[c].pc # "done" /\ (cycles[c].pc)' = "done" ]_vars
    /\ [][ \A k \in StatCounters : syncStats'[k] >= syncStats[k] ]_vars

\* C27 witness: the second cycle stands between two writes, one of them
\* applied, and getStats still reports the counters the first cycle left.
C27_Witness ==
    /\ isRunning
    /\ cycles[2].pc = "writeDelay"
    /\ cycles[2].successful > 0
    /\ cycles[2].statsAtStart.totalSyncs = 1
    /\ getStats.totalSyncs = 1
    /\ getStats.totalUpdates = cycles[2].statsAtStart.totalUpdates

\* C28: a cycle whose catalog fetch returned products ends only by
\* completing, and the step in which it completes adds 1 to totalSyncs,
\* the number of products fetched to totalProducts, the number of writes
\* applied to totalUpdates and the number of writes failed to totalErrors.
C28_CompletedCycleStatistics ==
    /\ [](\A c \in CycleIds :
            (Fetched(cycles[c]) /\ cycles[c].products # <<>>)
            => cycles[c].exit \in {"pending", "completed"})
    /\ [][ \A c \in CycleIds :
             (cycles[c].exit = "pending" /\ (cycles[c].exit)' = "completed")
             => syncStats' =
                  [ totalSyncs |-> syncStats.totalSyncs + 1,
                    totalProducts |-> syncStats.totalProducts
                                        + Len(cycles[c].products),
                    totalUpdates |-> syncStats.totalUpdates
                                       + OkWrites(cycles[c], Len(cycles[c].writes))',
                    totalErrors |-> syncStats.totalErrors
                                      + (Len(cycles[c].writes)
                                           - OkWrites(cycles[c], Len(cycles[c].writes)))' ] ]_vars

\* C28 witness: the second cycle completed with a write applied and a
\* write failed, and each counter stands at what it was when the cycle
\* started plus the cycle's share.
C28_Witness ==
    /\ cycles[2].exit = "completed"
    /\ cycles[2].successful > 0
    /\ cycles[2].failed > 0
    /\ cycles[2].statsAtStart.totalSyncs = 1
    /\ syncStats.totalSyncs = 2
    /\ syncStats.totalProducts
         = cycles[2].statsAtStart.totalProducts + Len(cycles[2].products)
    /\ syncStats.totalUpdates
         = cycles[2].statsAtStart.totalUpdates + cycles[2].successful
    /\ syncStats.totalErrors
         = cycles[2].statsAtStart.totalErrors + cycles[2].failed

\* C29: a cycle that has completed resolved with a result that carries
\* the number of items checked, of updates applied and of updates failed,
\* the last two adding up to the number of updates emitted.
C29_CycleResultReturned ==
    \A c \in CycleIds :
        cycles[c].exit = "completed"
        => /\ cycles[c].value =
                Some([ itemsChecked |-> Len(cycles[c].products),
                       updatesApplied |-> cycles[c].successful,
                       updatesFailed |-> cycles[c].failed ])
           /\ cycles[c].successful + cycles[c].failed = Len(cycles[c].updates)

\* C30: every cycle the schedule starts is started before a shutdown
\* signal has arrived.
C30_NoScheduledCycleAfterSignal ==
    \A c \in CycleIds :
        cycles[c].caller = "cron" => cycles[c].startedIn = "running"

\* C31: within a cycle every lookup precedes every write: a cycle that
\* stands at a write, between two writes, or has issued one has the answer
\* of the lookup of every item of its catalog, the last item of the last
\* batch included; and a step in which a query is issued or a lookup
\* returns is a step of a cycle that has issued no write.
C31_LookupsPrecedeWrites ==
    /\ [](\A c \in CycleIds :
            (cycles[c].pc \in {"write", "writeDelay"} \/ cycles[c].writes # <<>>)
            => /\ Len(cycles[c].lookups) = Len(cycles[c].products)
               /\ Len(cycles[c].found) = Len(cycles[c].products)
               /\ cycles[c].batchUpdates = <<>>)
    /\ [][ \A c \in CycleIds :
             (\/ (cycles[c].queries)' > cycles[c].queries
              \/ Len(cycles[c].lookups)' > Len(cycles[c].lookups))
             => /\ cycles[c].writes = <<>>
                /\ (cycles[c].writes)' = <<>>
                /\ cycles[c].pc \notin {"write", "writeDelay"} ]_vars

\* C31 witness: a catalog of two batches; the cycle has issued a write for
\* an item of the first batch, and all three lookups had returned.
C31_Witness ==
    \E c \in CycleIds :
        /\ Len(cycles[c].products) > BatchSize
        /\ Len(cycles[c].lookups) = Len(cycles[c].products)
        /\ cycles[c].writes # <<>>
        /\ PlaceOf(cycles[c], cycles[c].writes[1].productId) <= BatchSize

\* The batches one after the other.
RECURSIVE Flat(_)
Flat(seqs) == IF seqs = <<>> THEN <<>> ELSE Head(seqs) \o Flat(Tail(seqs))

\* C32: in a cycle that fetched products, whatever the batch size, the
\* batches processed so far hold, one after the other, the items looked up
\* so far in catalog order, each item once; every batch before the current
\* one holds exactly batchSize items and the current one at most
\* batchSize; once every item is looked up the last batch holds at least
\* one item and the batches number ceil(items / batchSize); a batch
\* begins only when the one before it is full and is never changed once
\* the next has begun; there is one pause after each batch but the last,
\* and the cycle stands at a pause only with a full batch behind it and
\* items left.
C32_BatchesPartitionTheCatalog ==
    /\ [](\A c \in CycleIds :
            LET cy == cycles[c]
                items == Len(cy.products)
                lookedUp == Len(cy.lookups)
                calls == Len(cy.batches)
            IN  cy.products # <<>>
                => /\ calls >= 1
                   /\ Flat(cy.batches) = [m \in 1..lookedUp |-> cy.products[m].id]
                   /\ \A b \in 1..calls : Len(cy.batches[b]) <= batchSize
                   /\ \A b \in 1..(calls - 1) : Len(cy.batches[b]) = batchSize
                   /\ lookedUp = items
                      => /\ Len(cy.batches[calls]) >= 1
                         /\ calls = (items + batchSize - 1) \div batchSize
                   /\ cy.pauses = [b \in 1..Len(cy.pauses) |-> b]
                   /\ Len(cy.pauses) = IF cy.pc = "batchDelay" THEN calls
                                       ELSE calls - 1
                   /\ cy.pc = "batchDelay"
                      => /\ cy.delayMs = BatchDelayMs
                         /\ Len(cy.batches[calls]) = batchSize
                         /\ lookedUp < items)
    /\ [][ \A c \in CycleIds :
             \A b \in 1..(Len(cycles[c].batches) - 1) :
                 (cycles[c].batches)'[b] = cycles[c].batches[b] ]_vars

\* C32 witness: with a batch size of 1 a catalog of three items was
\* processed in three batches with two pauses, and the cycle completed.
C32_Witness ==
    \E c \in CycleIds :
        /\ batchSize = 1
        /\ cycles[c].exit = "completed"
        /\ Len(cycles[c].products) = 3
        /\ cycles[c].batches
             = << <<cycles[c].products[1].id>>, <<cycles[c].products[2].id>>,
                  <<cycles[c].products[3].id>> >>
        /\ cycles[c].pauses = <<1, 2>>

\* A quantity is a whole number: neither Infinity nor -Infinity.
IsInteger(q) == q \in Int /\ q # Infinity /\ q # -Infinity

\* C33: every write a cycle has issued carries a quantity that is a whole
\* number and not negative.
C33_WritesCarryNonNegativeIntegers ==
    \A c \in CycleIds :
        \A m \in 1..Len(cycles[c].writes) :
            /\ IsInteger(cycles[c].writes[m].stockQuantity)
            /\ cycles[c].writes[m].stockQuantity >= 0

\* C34: the step in which a cycle's catalog fetch fails leaves the
\* statistics at what they were when the cycle started but for totalErrors,
\* which is one more; the step in which a cycle's fetch returns an empty
\* list leaves the four counters at what they were when the cycle started,
\* and lastSyncTime as it was; and totalSyncs is the number of cycles that
\* completed, each of which fetched a catalog that was not empty.
C34_FailedAndEmptyCyclesInStatistics ==
    /\ [][ \A c \in CycleIds :
             (cycles[c].exit = "pending" /\ (cycles[c].exit)' = "caught")
             => /\ (cycles[c].fetchError)'
                /\ syncStats = cycles[c].statsAtStart
                /\ syncStats' = [syncStats EXCEPT !.totalErrors = @ + 1] ]_vars
    /\ [][ \A c \in CycleIds :
             (cycles[c].exit = "pending" /\ (cycles[c].exit)' = "empty")
             => /\ syncStats = cycles[c].statsAtStart
                /\ syncStats' = syncStats
                /\ lastSyncTime' = lastSyncTime ]_vars
    /\ [](/\ syncStats.totalSyncs
               = Cardinality({c \in CycleIds : cycles[c].exit = "completed"})
          /\ \A c \in CycleIds :
               cycles[c].exit = "completed"
               => /\ Fetched(cycles[c])
                  /\ ~cycles[c].fetchError
                  /\ cycles[c].products # <<>>)

\* C34 witness: the first cycle fetched an empty list and the second
\* one's fetch failed: one error, no cycle, no item and no update counted,
\* lastSyncTime never set.
C34_Witness ==
    /\ cycles[1].exit = "empty"
    /\ cycles[2].exit = "caught"
    /\ syncStats = [totalSyncs |-> 0, totalProducts |-> 0,
                    totalUpdates |-> 0, totalErrors |-> 1]
    /\ lastSyncTime = 0

\* C35: a schedule is active only once the cycle start() began has
\* returned; the step in which that cycle returns, on whatever path, the
\* failed catalog fetch included, leaves start() completed and the
\* schedule active; and after a first cycle that failed at its fetch the
\* schedule stays active, so that its next tick starts a cycle.
C35_ScheduleFollowsInitialCycle ==
    /\ [](cronJob = "active"
            => /\ startPc = "started"
               /\ \E c \in CycleIds :
                    cycles[c].caller = "start" /\ cycles[c].pc = "done")
    /\ [][ \A c \in CycleIds :
             (/\ cycles[c].caller = "start"
              /\ cycles[c].pc # "done"
              /\ (cycles[c].pc)' = "done")
             => /\ cronJob = "null"
                /\ cronJob' = "active"
                /\ startPc' = "started" ]_vars
    /\ [](\A c \in CycleIds :
            (cycles[c].caller = "start" /\ cycles[c].exit = "caught")
            => /\ wooCommerceOk /\ localApiOk
               /\ cronJob = "active"
               /\ (~isRunning /\ Cardinality(Started) < MaxCycles)
                  => ENABLED CronTick)

\* C35 witness: the initial cycle failed at its catalog fetch, and a cycle
\* started by the schedule is running after it.
C35_Witness ==
    /\ cycles[1].caller = "start"
    /\ cycles[1].exit = "caught"
    /\ cronJob = "active"
    /\ cycles[2].caller = "cron"
    /\ Running(cycles[2])

\* C36: in --manual-sync mode the process has exited with code 1 only
\* when a connection test failed, and then no cycle was started; once both
\* tests have passed the exit code is never 1; and the step in which the
\* cycle ends, on whatever path and whatever its writes did, is the step
\* in which the process exits with code 0.
C36_ManualSyncExitCode ==
    /\ [](exitCode = Some(1)
            => /\ startPc = "failed"
               /\ ~wooCommerceOk \/ ~localApiOk
               /\ Started = {})
    /\ []((wooCommerceOk /\ localApiOk) => exitCode # Some(1))
    /\ [](proc = "exited" <=> exitCode # NULL)
    /\ [](proc = "exited" => (exitCode = Some(0) \/ exitCode = Some(1)))
    /\ [][ \A c \in CycleIds :
             (cycles[c].pc # "done" /\ (cycles[c].pc)' = "done")
             => /\ cycles[c].caller = "app"
                /\ proc' = "exited"
                /\ exitCode' = Some(0) ]_vars

\* C36 witness: both tests passed, every write of the cycle failed, and
\* the closure ended the process with code 0.
C36_Witness ==
    /\ wooCommerceOk /\ localApiOk
    /\ cycles[1].exit = "completed"
    /\ cycles[1].failed = Len(cycles[1].updates)
    /\ cycles[1].failed > 0
    /\ startPc = "done"
    /\ proc = "exited"
    /\ exitCode = Some(0)

====
